---- MODULE Spec2Model ----
(***************************************************************************)
(* Model of the event-count-issue reproducer (src/main.go).                *)
(*                                                                         *)
(* Two goroutines share the process: main (create, then the poll loop) and *)
(* the signal goroutine spawned at main.go:93.  Every step of the model is *)
(* one stretch of code between two blocking points (a control-plane call,  *)
(* the channel receive, the sleep).  The control plane is the environment: *)
(* the outcome of each call is drawn from the outcomes the cluster state   *)
(* allows.                                                                 *)
(***************************************************************************)
EXTENDS Naturals, Integers, Sequences, FiniteSets

VARIABLES
    groups,      \* control plane: the deployments of the default namespace
    proc,        \* "running", "exit0" (os.Exit(0)) or "panic"
    mainPc,      \* position of main
    sigPc,       \* position of the signal goroutine
    result,      \* main.go:83  result of Create
    podList,     \* main.go:102 result of Pods.List
    podIdx,      \* main.go:108 number of pods the range loop has taken
    selector,    \* main.go:110 result of ParseSelector
    events,      \* main.go:115 result of Events.List
    evIdx,       \* main.go:121 number of events the range loop has taken
    mainOut,     \* lines main printed in its latest step
    sigOut,      \* lines the signal goroutine printed in its latest step
    deleteLog,   \* history: the Delete calls issued, in order: call site, outcome
    createCalls, \* history: number of Create calls issued
    callFailed,  \* history: a Create / Pods.List / Events.List call failed
    iterDone     \* history: a poll iteration has run to its end

vars == <<groups, proc, mainPc, sigPc, result, podList, podIdx, selector,
          events, evIdx, mainOut, sigOut, deleteLog, createCalls, callFailed,
          iterDone>>

----------------------------------------------------------------------------
(* Bounds of the model *)

MaxPods == 2
MaxEvents == 2

----------------------------------------------------------------------------
(* Data *)

deploymentName == "event-count-issue-reproducer"

Replicas == 2

\* The object main submits (main.go:27-71); uid tells who created it.
deployment == [name |-> deploymentName, replicas |-> Replicas, uid |-> "self"]

\* Another workload of the namespace, there throughout.
Unrelated == [name |-> "unrelated", replicas |-> 1, uid |-> "other"]

\* A group somebody else created under the program's fixed name.
Collision == [name |-> deploymentName, replicas |-> 1, uid |-> "other"]

Named(gs, n) == {g \in gs : g.name = n}

PodNames == {"demo-1", "demo,2"}

\* Pod names the field-selector parser rejects (they hold a separator).
RejectedNames == {"demo,2"}

Kinds == {"Pod", "Node"}

\* Sample values of the int32 DeprecatedCount: negative, zero, positive.
Counts == {0 - 1, 0, 5}

EventRecords == [kind : Kinds, count : Counts, seriesNil : BOOLEAN]

SeqsUpTo(S, n) == UNION {[1 .. k -> S] : k \in 0 .. n}

\* A pointer result of a client call: nil, or a struct with its Items.
Nil == [isNil |-> TRUE, Items |-> <<>>]

Obj(items) == [isNil |-> FALSE, Items |-> items]

\* What a failed List/Create hands back next to the error: the typed client
\* returns an empty object, a fake client returns nil.
ErrResults == {Nil, Obj(<<>>)}

NoResult == [isNil |-> TRUE, name |-> ""]

NoSelector == [isNil |-> TRUE, field |-> "", value |-> ""]

\* A printed line: its fixed text and the values formatted into it.
Line(t) == [text |-> t, pod |-> "", count |-> 0, seriesNote |-> FALSE]

----------------------------------------------------------------------------
(* Pure parts of the program *)

\* main.go:110  fields.ParseSelector(fmt.Sprintf("regarding.name=%s", name))
ParseSelector(name) ==
    IF name \in RejectedNames
    THEN NoSelector
    ELSE [isNil |-> FALSE, field |-> "regarding.name", value |-> name]

\* Classify with the zero test written as "count > 0 is fine".
ClassifyPositive(name, ev) ==
    IF ev.kind # "Pod"
    THEN <<>>
    ELSE IF ev.count > 0
         THEN << [text |-> "Issue is no longer occuring - Event count is",
                  pod |-> name, count |-> ev.count, seriesNote |-> FALSE] >>
         ELSE << [text |-> "Issue is occuring - Event count is 0 for pod",
                  pod |-> name, count |-> 0, seriesNote |-> ev.seriesNil] >>

\* main.go:122-134  what the loop body prints for one event of pod `name`
Classify(name, ev) ==
    IF ev.kind # "Pod"
    THEN <<>>
    ELSE IF ev.count = 0
         THEN << [text |-> "Issue is occuring - Event count is 0 for pod",
                  pod |-> name, count |-> 0, seriesNote |-> ev.seriesNil] >>
         ELSE << [text |-> "Issue is no longer occuring - Event count is",
                  pod |-> name, count |-> ev.count, seriesNote |-> FALSE] >>

\* deleteDeployment with the error of Delete dropped.
AfterDeleteIgnoreErr(ok) == "running"

\* main.go:151-155  deleteDeployment panics on a failed Delete
AfterDelete(ok) == IF ok THEN "running" ELSE "panic"

\* cleanupAndExit printing its confirmations whatever Delete returned.
TeardownOutAlways(ok) ==
    <<Line("Deleting deployment..."), Line("Deleted deployment."),
      Line("Exiting.")>>

\* main.go:149-156, 145  what cleanupAndExit prints
TeardownOut(ok) ==
    IF ok
    THEN <<Line("Deleting deployment..."), Line("Deleted deployment."),
           Line("Exiting.")>>
    ELSE <<Line("Deleting deployment...")>>

\* main.go:143-146  cleanupAndExit returns to its caller: the statement that
\* follows each call site in main
AfterCleanup(pc) ==
    CASE pc = "createErr" -> "created"
      [] pc = "listErr"   -> "pods"
      [] pc = "selErr"    -> "query"
      [] pc = "evErr"     -> "classify"

\* The loop drawn around the provisioning call as well.
AfterSleepRecreate == "create"

\* main.go:138-139, 100  the loop's back edge
AfterSleep == "list"

ErrPcs == {"createErr", "listErr", "selErr", "evErr"}

PollPcs == {"list", "listErr", "pods", "selErr", "query", "evErr", "classify",
            "sleep"}

----------------------------------------------------------------------------
(* The control plane, as the program's calls see it *)

\* Create succeeds only when the name is free; it may fail for any reason.
CreateOutcomes(gs) ==
    IF Named(gs, deploymentName) = {} THEN {TRUE, FALSE} ELSE {FALSE}

\* Delete succeeds only when the named group exists; it may fail for any
\* reason.
DeleteOutcomes(gs) ==
    IF Named(gs, deploymentName) # {} THEN {TRUE, FALSE} ELSE {FALSE}

----------------------------------------------------------------------------
(* Initial state: main is about to call Create (main.go:83) *)

Init ==
    /\ groups \in {{Unrelated}, {Unrelated, Collision}}
    /\ proc = "running"
    /\ mainPc = "create"
    /\ sigPc = "none"
    /\ result = NoResult
    /\ podList = Nil
    /\ podIdx = 0
    /\ selector = NoSelector
    /\ events = Nil
    /\ evIdx = 0
    /\ mainOut = <<>>
    /\ sigOut = <<>>
    /\ deleteLog = <<>>
    /\ createCalls = 0
    /\ callFailed = FALSE
    /\ iterDone = FALSE

----------------------------------------------------------------------------
(* main *)

\* main.go:82-87
MainCreate ==
    /\ proc = "running" /\ mainPc = "create"
    /\ createCalls' = createCalls + 1
    /\ \E ok \in CreateOutcomes(groups) :
         IF ok
         THEN /\ groups' = groups \cup {deployment}
              /\ result' = [isNil |-> FALSE, name |-> deploymentName]
              /\ mainOut' = <<Line("Creating deployment...")>>
              /\ mainPc' = "created"
              /\ UNCHANGED callFailed
         ELSE /\ result' \in {NoResult, [isNil |-> FALSE, name |-> ""]}
              /\ mainOut' = <<Line("Creating deployment..."),
                              Line("Error creating deployment")>>
              /\ mainPc' = "createErr"
              /\ callFailed' = TRUE
              /\ UNCHANGED groups
    /\ UNCHANGED <<proc, sigPc, podList, podIdx, selector, events, evIdx,
                   sigOut, deleteLog, iterDone>>

\* main.go:86, 105, 113, 118  cleanupAndExit(deploymentsClient) in main
MainCleanup ==
    /\ proc = "running" /\ mainPc \in ErrPcs
    /\ \E ok \in DeleteOutcomes(groups) :
         /\ deleteLog' = Append(deleteLog, [site |-> mainPc, ok |-> ok])
         /\ groups' = IF ok THEN groups \ Named(groups, deploymentName)
                             ELSE groups
         /\ proc' = AfterDelete(ok)
         /\ mainOut' = TeardownOut(ok)
         /\ mainPc' = IF AfterDelete(ok) = "running"
                       THEN AfterCleanup(mainPc) ELSE mainPc
    /\ UNCHANGED <<sigPc, result, podList, podIdx, selector, events, evIdx,
                   sigOut, createCalls, callFailed, iterDone>>

\* main.go:88
MainCreated ==
    /\ proc = "running" /\ mainPc = "created"
    /\ IF result.isNil
       THEN /\ proc' = "panic"
            /\ mainOut' = <<>>
            /\ UNCHANGED mainPc
       ELSE /\ mainOut' = <<[Line("Created deployment") EXCEPT
                                  !.pod = result.name]>>
            /\ mainPc' = "notify"
            /\ UNCHANGED proc
    /\ UNCHANGED <<groups, sigPc, result, podList, podIdx, selector, events,
                   evIdx, sigOut, deleteLog, createCalls, callFailed,
                   iterDone>>

\* main.go:91-97  register for the signals and start the goroutine
MainNotify ==
    /\ proc = "running" /\ mainPc = "notify"
    /\ sigPc' = "waiting"
    /\ mainPc' = AfterSleep
    /\ mainOut' = <<>>
    /\ UNCHANGED <<groups, proc, result, podList, podIdx, selector, events,
                   evIdx, sigOut, deleteLog, createCalls, callFailed,
                   iterDone>>

\* main.go:102-105
MainList ==
    /\ proc = "running" /\ mainPc = "list"
    /\ podIdx' = 0
    /\ \/ /\ \E pods \in SeqsUpTo(PodNames, MaxPods) : podList' = Obj(pods)
          /\ mainOut' = <<>>
          /\ mainPc' = "pods"
          /\ UNCHANGED callFailed
       \/ /\ podList' \in ErrResults
          /\ mainOut' = <<Line("Error listing pods")>>
          /\ mainPc' = "listErr"
          /\ callFailed' = TRUE
    /\ UNCHANGED <<groups, proc, sigPc, result, selector, events, evIdx,
                   sigOut, deleteLog, createCalls, iterDone>>

\* main.go:108-113  the range loop over podList.Items takes the next pod
MainNextPod ==
    /\ proc = "running" /\ mainPc = "pods"
    /\ IF podList.isNil
       THEN /\ proc' = "panic"
            /\ mainOut' = <<>>
            /\ UNCHANGED <<mainPc, podIdx, selector>>
       ELSE IF podIdx = Len(podList.Items)
       THEN /\ mainPc' = "sleep"
            /\ mainOut' = <<>>
            /\ UNCHANGED <<proc, podIdx, selector>>
       ELSE /\ podIdx' = podIdx + 1
            /\ selector' = ParseSelector(podList.Items[podIdx + 1])
            /\ IF selector'.isNil
               THEN /\ mainOut' = <<Line("failed to parse field selector")>>
                    /\ mainPc' = "selErr"
               ELSE /\ mainOut' = <<>>
                    /\ mainPc' = "query"
            /\ UNCHANGED proc
    /\ UNCHANGED <<groups, sigPc, result, podList, events, evIdx, sigOut,
                   deleteLog, createCalls, callFailed, iterDone>>

\* main.go:115-118
MainQuery ==
    /\ proc = "running" /\ mainPc = "query"
    /\ IF selector.isNil
       THEN /\ proc' = "panic"
            /\ mainOut' = <<>>
            /\ UNCHANGED <<mainPc, events, evIdx, callFailed>>
       ELSE /\ evIdx' = 0
            /\ UNCHANGED proc
            /\ \/ /\ \E evs \in SeqsUpTo(EventRecords, MaxEvents) :
                        events' = Obj(evs)
                  /\ mainOut' = <<>>
                  /\ mainPc' = "classify"
                  /\ UNCHANGED callFailed
               \/ /\ events' \in ErrResults
                  /\ mainOut' = <<Line("failed to get events")>>
                  /\ mainPc' = "evErr"
                  /\ callFailed' = TRUE
    /\ UNCHANGED <<groups, sigPc, result, podList, podIdx, selector, sigOut,
                   deleteLog, createCalls, iterDone>>

\* main.go:121-135  the range loop over events.Items takes the next event
MainClassify ==
    /\ proc = "running" /\ mainPc = "classify"
    /\ IF events.isNil
       THEN /\ proc' = "panic"
            /\ mainOut' = <<>>
            /\ UNCHANGED <<mainPc, events, evIdx, selector>>
       ELSE IF evIdx = Len(events.Items)
       THEN /\ mainPc' = "pods"
            /\ mainOut' = <<>>
            /\ events' = Nil
            /\ evIdx' = 0
            /\ selector' = NoSelector
            /\ UNCHANGED proc
       ELSE /\ evIdx' = evIdx + 1
            /\ mainOut' = Classify(podList.Items[podIdx],
                                   events.Items[evIdx + 1])
            /\ UNCHANGED <<proc, mainPc, events, selector>>
    /\ UNCHANGED <<groups, sigPc, result, podList, podIdx, sigOut, deleteLog,
                   createCalls, callFailed, iterDone>>

\* main.go:138
MainSleep ==
    /\ proc = "running" /\ mainPc = "sleep"
    /\ mainPc' = AfterSleep
    /\ iterDone' = TRUE
    /\ podList' = Nil
    /\ podIdx' = 0
    /\ mainOut' = <<>>
    /\ UNCHANGED <<groups, proc, sigPc, result, selector, events, evIdx,
                   sigOut, deleteLog, createCalls, callFailed>>

----------------------------------------------------------------------------
(* The signal goroutine, main.go:93-97 *)

\* main.go:94  <-c
SigReceive ==
    /\ proc = "running" /\ sigPc = "waiting"
    /\ sigPc' = "cleanup"
    /\ UNCHANGED <<groups, proc, mainPc, result, podList, podIdx, selector,
                   events, evIdx, mainOut, sigOut, deleteLog, createCalls,
                   callFailed, iterDone>>

\* main.go:95  cleanupAndExit(deploymentsClient)
SigCleanup ==
    /\ proc = "running" /\ sigPc = "cleanup"
    /\ \E ok \in DeleteOutcomes(groups) :
         /\ deleteLog' = Append(deleteLog, [site |-> "signal", ok |-> ok])
         /\ groups' = IF ok THEN groups \ Named(groups, deploymentName)
                             ELSE groups
         /\ proc' = AfterDelete(ok)
         /\ sigOut' = TeardownOut(ok)
         /\ sigPc' = IF AfterDelete(ok) = "running" THEN "exit" ELSE sigPc
    /\ UNCHANGED <<mainPc, result, podList, podIdx, selector, events, evIdx,
                   mainOut, createCalls, callFailed, iterDone>>

\* main.go:96  os.Exit(0)
SigExit ==
    /\ proc = "running" /\ sigPc = "exit"
    /\ proc' = "exit0"
    /\ UNCHANGED <<groups, mainPc, sigPc, result, podList, podIdx, selector,
                   events, evIdx, mainOut, sigOut, deleteLog, createCalls,
                   callFailed, iterDone>>

----------------------------------------------------------------------------

Next ==
    \/ MainCreate
    \/ MainCleanup
    \/ MainCreated
    \/ MainNotify
    \/ MainList
    \/ MainNextPod
    \/ MainQuery
    \/ MainClassify
    \/ MainSleep
    \/ SigReceive
    \/ SigCleanup
    \/ SigExit

Spec == Init /\ [][Next]_vars

----------------------------------------------------------------------------
(* Vocabulary of the properties *)

LoopErrPcs == {"listErr", "selErr", "evErr"}

DeleteCalls == Len(deleteLog)

DeletesAt(sites) == {i \in DOMAIN deleteLog : deleteLog[i].site \in sites}

\* cleanupAndExit, called from a site of `sites`, has returned to its caller.
TeardownReturned(sites) == \E i \in DeletesAt(sites) : deleteLog[i].ok

CreateSucceeded == result.name = deploymentName

CreateFailed == createCalls > 0 /\ ~CreateSucceeded

SignalReceived == sigPc \in {"cleanup", "exit"}

LoopErrored == mainPc \in LoopErrPcs \/ DeletesAt(LoopErrPcs) # {}

\* main's step is a Pods.List or an Events.List call.
PollCallStep ==
    \/ mainPc = "list" /\ mainPc' \in {"pods", "listErr"}
    \/ mainPc = "query" /\ mainPc' \in {"classify", "evErr"}

\* main's step is the classification of one event.
ClassifyStep == mainPc = "classify" /\ evIdx' = evIdx + 1

FullTeardownOut ==
    <<Line("Deleting deployment..."), Line("Deleted deployment."),
      Line("Exiting.")>>

----------------------------------------------------------------------------
(* C1 *)

\* C1, as claimed: once the teardown that follows a poll-loop error (listing,
\* selector construction or event query) has returned, main issues no further
\* Pods.List or Events.List call and starts no further iteration.
C1_NoPollAfterLoopTeardown ==
    [][TeardownReturned(LoopErrPcs) =>
           /\ ~PollCallStep
           /\ ~(mainPc = "sleep" /\ mainPc' = "list")]_vars

----------------------------------------------------------------------------
(* C2 *)

\* C2, as claimed: when Create has failed the signal goroutine is never
\* registered and the poll loop is never entered.
C2_FailedCreateStops ==
    CreateFailed => (sigPc = "none" /\ mainPc \notin PollPcs)

----------------------------------------------------------------------------
(* C3 *)

\* No signal is being handled in a run whose loop has met an error.
NonRacing == ~(SignalReceived /\ LoopErrored)

\* C3, as claimed (for the runs whose provisioning succeeded): without a race
\* between the signal and a loop error, Delete is called at most once, and
\* exactly once in a run that has ended.
C3_TeardownExactlyOnce ==
    (CreateSucceeded /\ NonRacing) =>
        /\ DeleteCalls <= 1
        /\ (proc # "running" => DeleteCalls = 1)

----------------------------------------------------------------------------
(* C4 *)

\* C4, as claimed: a run that ends before any poll iteration has completed
\* and in which the signal goroutine's Delete succeeded holds exactly one
\* teardown and ends with exit status 0.
C4_EarlySignalOneTeardown ==
    (proc # "running" /\ ~iterDone /\ TeardownReturned({"signal"})) =>
        (proc = "exit0" /\ DeleteCalls = 1)

\* C4, amended: the signal goroutine reaches os.Exit(0) only after its own
\* teardown has run to completion, it tears down at most once, exit status 0
\* comes from that goroutine alone; and a run that has ended, in which its
\* Delete succeeded and main invoked no teardown of its own, holds exactly
\* one teardown and ends with exit status 0.
C4_ExitZeroAfterTeardown ==
    /\ sigPc = "exit" => TeardownReturned({"signal"})
    /\ proc = "exit0" => sigPc = "exit"
    /\ Cardinality(DeletesAt({"signal"})) <= 1
    /\ (proc # "running" /\ TeardownReturned({"signal"})
          /\ DeletesAt(ErrPcs) = {}) =>
           (proc = "exit0" /\ DeleteCalls = 1)

\* The signal arrived before any poll iteration completed, Delete succeeded,
\* and the process has exited with status 0 after that single teardown.
C4_Witness ==
    /\ proc = "exit0"
    /\ ~iterDone
    /\ deleteLog = <<[site |-> "signal", ok |-> TRUE]>>

----------------------------------------------------------------------------
(* C5 *)

\* C5, as claimed: once a Create, Pods.List or Events.List call has failed
\* the process never exits with status 0, and it has ended, instead of being
\* about to poll again, once the teardown main runs for a failure has
\* returned.
C5_FailureEndsAbnormally ==
    callFailed =>
        /\ proc # "exit0"
        /\ (TeardownReturned(ErrPcs) /\ mainPc = "list") => proc # "running"

----------------------------------------------------------------------------
(* C6 *)

\* C6: Create is issued at most once per run; after it has succeeded and
\* until the first Delete call, exactly one group bears the fixed name and it
\* is the object that was submitted, unchanged.
C6_OneGroup ==
    /\ createCalls <= 1
    /\ (CreateSucceeded /\ deleteLog = <<>>) =>
           /\ Cardinality(Named(groups, deploymentName)) = 1
           /\ Named(groups, deploymentName) = {deployment}

\* The loop has been polling for more than one iteration on the created group.
C6_Witness ==
    /\ CreateSucceeded
    /\ deleteLog = <<>>
    /\ iterDone
    /\ mainPc = "classify"
    /\ deployment \in groups

----------------------------------------------------------------------------
(* C7 *)

\* What main printed for the event it has just taken, and what the claim
\* says it prints.
C7_Printed ==
    (proc = "running" /\ mainPc = "classify" /\ evIdx > 0) =>
        LET ev == events.Items[evIdx]
            p == podList.Items[podIdx]
        IN  /\ ev.kind # "Pod" => mainOut = <<>>
            /\ (ev.kind = "Pod" /\ ev.count = 0) =>
                   /\ Len(mainOut) = 1
                   /\ mainOut[1].text =
                          "Issue is occuring - Event count is 0 for pod"
                   /\ mainOut[1].pod = p
                   /\ mainOut[1].seriesNote = ev.seriesNil
            /\ (ev.kind = "Pod" /\ ev.count # 0) =>
                   /\ Len(mainOut) = 1
                   /\ mainOut[1].text =
                          "Issue is no longer occuring - Event count is"
                   /\ mainOut[1].pod = p
                   /\ mainOut[1].count = ev.count
                   /\ mainOut[1].seriesNote = FALSE

\* C7: for every event the loop takes, nothing is printed when its kind is
\* not "Pod"; exactly one "issue occurring" line naming the pod when the kind
\* is "Pod" and the count is 0, with the series detail iff the event has no
\* series; exactly one "no longer occurring" line with the pod and the count
\* when the count is not 0.  And a classification step calls no Delete, ends
\* nothing and leaves main in the event loop.
C7_Classifier ==
    /\ []C7_Printed
    /\ [][ClassifyStep =>
             /\ deleteLog' = deleteLog
             /\ groups' = groups
             /\ proc' = proc
             /\ mainPc' = "classify"]_vars

\* Main has just classified a Pod event of negative count and with a series.
C7_Witness ==
    /\ mainPc = "classify"
    /\ evIdx = 2
    /\ events.Items[evIdx].kind = "Pod"
    /\ events.Items[evIdx].count < 0
    /\ ~events.Items[evIdx].seriesNil
    /\ Len(mainOut) = 1

----------------------------------------------------------------------------
(* C8 *)

\* C8, as claimed: the Delete call of the teardown that follows a failed
\* Create leaves the set of groups on the control plane as it was.
C8_FailedCreateDeleteIsNoop ==
    [][mainPc = "createErr" => groups' = groups]_vars

----------------------------------------------------------------------------
(* C9 *)

\* C9: nothing keeps a second teardown from calling Delete; a second Delete
\* call finds the group gone, fails, and the process ends by panic, never
\* with exit status 0.
C9_SecondDeletePanics ==
    DeleteCalls >= 2 =>
        /\ deleteLog[1].ok
        /\ ~deleteLog[2].ok
        /\ DeleteCalls = 2
        /\ proc = "panic"

\* The signal goroutine tore down first, while main was in an iteration;
\* main's call then failed and its own teardown made the second Delete call.
C9_Witness ==
    /\ CreateSucceeded
    /\ DeleteCalls = 2
    /\ deleteLog[1] = [site |-> "signal", ok |-> TRUE]
    /\ deleteLog[2].site \in {"listErr", "evErr"}
    /\ ~deleteLog[2].ok
    /\ sigPc = "exit"
    /\ proc = "panic"

----------------------------------------------------------------------------
(* C10 *)

\* C10: a failed Delete ends the process by panic there and then, whatever
\* the call site: it is the last Delete call of the run, only "Deleting
\* deployment..." was printed by the caller, who stays at the call, and the
\* signal goroutine never reaches os.Exit(0).  A successful Delete is
\* followed by both confirmations and the return to the caller.
C10_DeleteFailureFatal ==
    /\ \A i \in DOMAIN deleteLog :
         ~deleteLog[i].ok =>
            /\ proc = "panic"
            /\ i = DeleteCalls
            /\ IF deleteLog[i].site = "signal"
               THEN sigOut = <<Line("Deleting deployment...")>>
                    /\ sigPc = "cleanup"
               ELSE mainOut = <<Line("Deleting deployment...")>>
                    /\ mainPc = deleteLog[i].site
    /\ \A i \in DeletesAt({"signal"}) :
         deleteLog[i].ok => (sigPc = "exit" /\ sigOut = FullTeardownOut)
    /\ \A i \in DeletesAt(ErrPcs) :
         (deleteLog[i].ok /\ (\A j \in DeletesAt(ErrPcs) : j <= i)
            /\ mainOut # <<>>
            /\ mainOut[1] = Line("Deleting deployment...")) =>
             (mainOut = FullTeardownOut
                /\ mainPc = AfterCleanup(deleteLog[i].site))

\* The Delete call of the signal goroutine failed.
C10_Witness ==
    /\ DeleteCalls >= 1
    /\ deleteLog[DeleteCalls] = [site |-> "signal", ok |-> FALSE]
    /\ proc = "panic"

====
